---- MODULE Spec2Model ----
(***************************************************************************)
(* Model of the Node.js WebSocket gateway (nodejs-gateway/src): the        *)
(* connection registry (connection-manager.js), the bus client and its     *)
(* channel multiplexer (redis-client.js), the admission path (server.js)   *)
(* and the token validator (auth.js).                                      *)
(*                                                                         *)
(* One action is one task of the Node.js event loop: the synchronous run   *)
(* of a handler up to its next await on real I/O.  An await on a promise   *)
(* that is already settled only yields to microtasks, which run before any *)
(* other I/O event is dispatched, so it does not end an action.            *)
(***************************************************************************)
EXTENDS Integers, Sequences, FiniteSets, TLC

\* ---------------------------------------------------------------- bounds
NumSockets == 2          \* WebSocket objects the model can create
CacheTTL == 2            \* AuthService.cacheTTL, in clock ticks
MaxTime == 5             \* last clock value of the token validator model
ShortExp == 3            \* the exp claim of the short-lived token
NumWorkers == 3          \* config.cluster.workers
MaxMessages == 2      \* bus messages read from the subscriber connection
MaxCrashes == 4          \* worker exits in one run of the cluster model

Sockets == 1 .. NumSockets
Users == {"u1", "u2"}
NoUser == "-"

\* ------------------------------------------------------------- channels
\* A channel name is the pair <<owner, topic>>; `user:${userId}:notifications`
\* is <<userId, "notifications">>, 'charger:updates' is <<"*", "charger:updates">>.
PublicChannel == <<"*", "charger:updates">>

UserChannels(userId) == << <<userId, "notifications">>, <<userId, "session_updates">> >>

Channels == {PublicChannel} \cup {UserChannels(u)[i] : u \in Users, i \in 1 .. 2}

\* The two closures handed to redisClient.subscribe.
PublicCallback == [fn |-> "broadcastToAll", userId |-> NoUser]

UserCallback(userId) == [fn |-> "broadcastToUser", userId |-> userId]

\* ----------------------------------------------------- JS Map operations
EmptyMap == << >>

MapHas(m, k) == k \in DOMAIN m

MapSet(m, k, v) == [x \in (DOMAIN m) \cup {k} |-> IF x = k THEN v ELSE m[x]]

MapDelete(m, k) == [x \in (DOMAIN m) \ {k} |-> m[x]]

\* ---------------------------------------------------------------- tokens
\* "L1", "S1": signed with the shared secret, claims {id: u1}; "S1" carries
\* the short exp claim.  "R": a token jwt.verify rejects; what the backend
\* says of it is the backend's answer.  NoToken: the request carries no token.
NoToken == "none"

Tokens == {"L1", "S1", "R"}

Signed(token) == token \in {"L1", "S1"}

TokenExp(token) == IF token = "S1" THEN ShortExp ELSE MaxTime + CacheTTL + 1

Claims(token) == [id |-> IF Signed(token) THEN "u1" ELSE "-"]

\* the tokens connection requests carry; the clock of the gateway
\* specification stands still, where "S1" behaves as "L1" does
ConnectTokens == {NoToken, "L1", "R"}

NoClaims == [id |-> "null"]

\* validateTokenWithLaravel's results: null (non-2xx, timeout, valid:false),
\* response.data.user of user u2, response.data.user without an id
RemoteAnswers == {NoClaims, [id |-> "u2"], [id |-> NoUser]}

\* inbound commands of authenticated connections: message.action, and
\* NoAction for "no handleMessage call is awaiting the backend"
NoAction == "-"

Actions == {"start_charging", "stop_charging"}

\* what forwardToLaravel returns: the backend's response body (a truthy one,
\* or a falsy one such as an empty string, 0, false or null), or its own
\* error object after a transport error, a timeout or a non-2xx status
OkBody == [truthy |-> TRUE, success |-> "true", error |-> "absent", message |-> "absent"]

FalsyBody == [truthy |-> FALSE, success |-> "absent", error |-> "absent", message |-> "absent"]

ForwardFailure ==
  [truthy |-> TRUE, success |-> "absent", error |-> "Failed to process request",
   message |-> "error.message"]

ForwardResults == {OkBody, FalsyBody, ForwardFailure}

VARIABLES
  started,   \* WebSocketGateway.initialize has run
  config,    \* config.server.maxConnections, read from the environment at load
  cm,        \* ConnectionManager: connections, userConnections, guestConnections,
             \* publicChannelSubscribed, connectionStats
  redis,     \* RedisClient: publisher, subscriber, connected, subscribedChannels,
             \* channelCallbacks, messageHandler
  auth,      \* AuthService: tokenCache
  ws,        \* per WebSocket: readyState, close code sent, registered listeners
  adm,       \* per WebSocket: where its handleConnection call is suspended
  link,      \* the two broker connections: is the publisher / subscriber socket up,
             \* and which of them were closed for good by quit
  brokerSubs,\* channels the subscriber connection is subscribed to at the broker
  now,       \* Date.now()
  cluster,   \* the cluster primary: its live workers and unhandled 'exit' events
  feed,      \* the subscriber connection's input: messages read and not yet
             \* emitted, the messages sent so far on each socket, a counter
  shutdown   \* where WebSocketGateway.shutdown() is: "no" (not called),
             \* "quitPub" / "quitSub" (awaiting publisher / subscriber quit),
             \* "failed" (it rejected), "exited" (process.exit was called)

vars == <<started, config, cm, redis, auth, ws, adm, link, brokerSubs, now, cluster, feed, shutdown>>

\* ------------------------------------------------------------ the output
\* What one task does to the outside: the frames it sends on each socket, the
\* commands it writes to the broker, the HTTP calls it starts, the pings it
\* sends, and, for a bus message, the callbacks it invokes (by index) and the
\* number of JSON.parse calls.
NoSent == [s \in Sockets |-> << >>]

NoOut ==
  [sent |-> NoSent, cmds |-> << >>, http |-> << >>, pings |-> << >>,
   calls |-> << >>, parses |-> 0]

Count(seq, x) == Cardinality({i \in DOMAIN seq : seq[i] = x})

\* A world W is what one synchronous run works on: [cm, redis, ws, out], the
\* registry, the bus client, the sockets and the output so far.  The
\* operators below are the methods; each takes the world it runs in and
\* gives the world it leaves.

\* ws.send(message) on an open socket
WsSend(W, s, frame) == [W EXCEPT !.out.sent[s] = Append(@, frame)]

\* a command written to the broker by the bus client
Command(W, cmd, arg) == [W EXCEPT !.out.cmds = Append(@, <<cmd, arg>>)]

\* ------------------------------------------------------ RedisClient
\* RedisClient.unsubscribe
Unsubscribe(W, channel) ==
  IF ~W.redis.connected \/ ~W.redis.subscriber THEN W
  ELSE LET cbs == MapDelete(W.redis.channelCallbacks, channel)
           W1 == [W EXCEPT !.redis.channelCallbacks = cbs]
       IN  \* this.channelCallbacks.get(channel)?.length === 0, read after the delete
           IF channel \in W1.redis.subscribedChannels
              /\ MapHas(cbs, channel) /\ Len(cbs[channel]) = 0
           THEN [Command(W1, "UNSUBSCRIBE", channel)
                   EXCEPT !.redis.subscribedChannels = @ \ {channel}]
           ELSE W1

\* a setupMessageHandler that attaches a listener on every call
SetupMessageHandlerAgain(W) ==
  IF ~W.redis.subscriber THEN W
  ELSE [W EXCEPT !.redis.messageHandler = TRUE, !.redis.listeners = @ + 1]

\* RedisClient.setupMessageHandler
SetupMessageHandler(W) ==
  IF W.redis.messageHandler THEN W
  ELSE IF ~W.redis.subscriber THEN W
  ELSE [W EXCEPT !.redis.messageHandler = TRUE, !.redis.listeners = 1]

\* RedisClient.subscribe up to `await this.subscriber.subscribe(channel)`:
\* [W, awaiting], awaiting = the SUBSCRIBE command was written and not yet answered
SubscribeStart(W, channel, callback) ==
  IF ~W.redis.connected \/ ~W.redis.subscriber THEN [W |-> W, awaiting |-> FALSE]
  ELSE LET W1 == SetupMessageHandler(W)
           old == IF MapHas(W1.redis.channelCallbacks, channel)
                  THEN W1.redis.channelCallbacks[channel] ELSE << >>
           W2 == [W1 EXCEPT !.redis.channelCallbacks =
                               MapSet(@, channel, Append(old, callback))]
       IN  IF channel \notin W2.redis.subscribedChannels
           THEN [W |-> Command(W2, "SUBSCRIBE", channel), awaiting |-> TRUE]
           ELSE [W |-> W2, awaiting |-> FALSE]

\* RedisClient.publish: [W, outcome], outcome = how the returned promise
\* settles once the broker has answered ("pending": PUBLISH was written)
Publish(W, channel) ==
  IF ~W.redis.connected \/ ~W.redis.publisher
  THEN [W |-> W, outcome |-> "rejected"]
  ELSE [W |-> Command(W, "PUBLISH", channel), outcome |-> "pending"]

\* RedisClient.set / RedisClient.del, as called by the registry (not awaited)
RedisSet(W, userId) ==
  IF ~W.redis.connected \/ ~W.redis.publisher THEN W ELSE Command(W, "SETEX", <<userId, "ws">>)

RedisDel(W, userId) ==
  IF ~W.redis.connected THEN W ELSE Command(W, "DEL", <<userId, "ws">>)

\* ------------------------------------------------- ConnectionManager
\* ConnectionManager.unsubscribeFromUserChannels (called without await; its
\* second unsubscribe runs in a microtask of the same task)
UnsubscribeFromUserChannels(W, userId) ==
  IF ~W.redis.connected THEN W
  ELSE Unsubscribe(Unsubscribe(W, UserChannels(userId)[1]), UserChannels(userId)[2])

\* ConnectionManager.addConnection
AddConnection(W, userId, s) ==
  LET set == IF MapHas(W.cm.connections, userId) THEN W.cm.connections[userId] ELSE {}
      n == IF MapHas(W.cm.connectionStats.byUser, userId)
           THEN W.cm.connectionStats.byUser[userId] ELSE 0
      W1 == [W EXCEPT !.cm.connections = MapSet(@, userId, set \cup {s}),
                      !.cm.userConnections = MapSet(@, s, userId),
                      !.cm.connectionStats.total = @ + 1,
                      !.cm.connectionStats.active = @ + 1,
                      !.cm.connectionStats.byUser = MapSet(@, userId, n + 1)]
  IN  IF W1.redis.connected THEN RedisSet(W1, userId) ELSE W1

\* ConnectionManager.addGuestConnection
AddGuestConnection(W, s) ==
  [W EXCEPT !.cm.guestConnections = @ \cup {s},
            !.cm.connectionStats.active = @ + 1,
            !.cm.connectionStats.guests = @ + 1]

\* a removeConnection that counts down also for a socket it does not know
RemoveConnectionUnguarded(W, s) ==
  IF s \in W.cm.guestConnections
  THEN [W EXCEPT !.cm.guestConnections = @ \ {s},
                 !.cm.connectionStats.active = @ - 1,
                 !.cm.connectionStats.guests = @ - 1]
  ELSE IF ~MapHas(W.cm.userConnections, s)
  THEN [W EXCEPT !.cm.connectionStats.active = @ - 1]
  ELSE LET userId == W.cm.userConnections[s]
           left == W.cm.connections[userId] \ {s}
           W1 == IF left = {}
                 THEN UnsubscribeFromUserChannels(
                        [W EXCEPT !.cm.connections = MapDelete(@, userId)], userId)
                 ELSE [W EXCEPT !.cm.connections[userId] = left]
           count == W1.cm.connectionStats.byUser[userId] - 1
       IN  [W1 EXCEPT !.cm.userConnections = MapDelete(@, s),
                      !.cm.connectionStats.active = @ - 1,
                      !.cm.connectionStats.byUser =
                         IF count > 0 THEN MapSet(@, userId, count)
                         ELSE MapDelete(@, userId)]

\* ConnectionManager.removeConnection
RemoveConnection(W, s) ==
  IF s \in W.cm.guestConnections
  THEN [W EXCEPT !.cm.guestConnections = @ \ {s},
                 !.cm.connectionStats.active = @ - 1,
                 !.cm.connectionStats.guests = @ - 1]
  ELSE IF ~MapHas(W.cm.userConnections, s) THEN W
  ELSE LET userId == W.cm.userConnections[s]
           W1 == IF ~MapHas(W.cm.connections, userId) THEN W
                 ELSE LET left == W.cm.connections[userId] \ {s}
                      IN  IF left = {}
                          THEN UnsubscribeFromUserChannels(
                                 [W EXCEPT !.cm.connections = MapDelete(@, userId)], userId)
                          ELSE [W EXCEPT !.cm.connections[userId] = left]
           count == (IF MapHas(W1.cm.connectionStats.byUser, userId)
                     THEN W1.cm.connectionStats.byUser[userId] ELSE 1) - 1
           W2 == [W1 EXCEPT !.cm.userConnections = MapDelete(@, s),
                            !.cm.connectionStats.active = @ - 1,
                            !.cm.connectionStats.byUser =
                               IF count > 0 THEN MapSet(@, userId, count)
                               ELSE MapDelete(@, userId)]
       IN  IF W2.redis.connected THEN RedisDel(W2, userId) ELSE W2

\* ConnectionManager.sendMessage
SendMessage(W, s, frame) ==
  IF W.ws[s].readyState = "OPEN" THEN WsSend(W, s, frame) ELSE W

\* ConnectionManager.sendError
SendError(W, s) == SendMessage(W, s, "error")

\* userConnections.forEach of broadcastToUser, over the sockets still to visit
RECURSIVE BroadcastToUserLoop(_, _)
BroadcastToUserLoop(W, todo) ==
  IF todo = {} THEN W
  ELSE LET s == CHOOSE x \in todo : TRUE
           W1 == IF W.ws[s].readyState = "OPEN" THEN WsSend(W, s, "push")
                 ELSE RemoveConnection(W, s)
       IN  BroadcastToUserLoop(W1, todo \ {s})

\* ConnectionManager.broadcastToUser
BroadcastToUser(W, userId) ==
  IF ~MapHas(W.cm.connections, userId) THEN W
  ELSE BroadcastToUserLoop(W, W.cm.connections[userId])

\* the two forEach loops of broadcastToAll: authenticated sockets, then guests
RECURSIVE BroadcastAuthLoop(_, _)
BroadcastAuthLoop(W, todo) ==
  IF todo = {} THEN W
  ELSE LET s == CHOOSE x \in todo : TRUE
           W1 == IF W.ws[s].readyState = "OPEN" THEN WsSend(W, s, "push") ELSE W
       IN  BroadcastAuthLoop(W1, todo \ {s})

RECURSIVE BroadcastGuestLoop(_, _)
BroadcastGuestLoop(W, todo) ==
  IF todo = {} THEN W
  ELSE LET s == CHOOSE x \in todo : TRUE
           W1 == IF W.ws[s].readyState = "OPEN" THEN WsSend(W, s, "push")
                 ELSE RemoveConnection(W, s)
       IN  BroadcastGuestLoop(W1, todo \ {s})

\* ConnectionManager.broadcastToAll
BroadcastToAll(W) ==
  LET authed == UNION {W.cm.connections[u] : u \in DOMAIN W.cm.connections}
  IN  BroadcastGuestLoop(BroadcastAuthLoop(W, authed), W.cm.guestConnections)

\* a closure that ignores whose channel it was registered for and broadcasts
\* to every socket: the isolation of C5 does not survive it
InvokeCallbackToAll(W, callback) == BroadcastToAll(W)

\* one closure registered by subscribeToUserChannels / subscribeToPublicChannels
InvokeCallback(W, callback) ==
  IF callback.fn = "broadcastToAll" THEN BroadcastToAll(W)
  ELSE BroadcastToUser(W, callback.userId)

\* a forEach that ends at the first callback that throws (no try/catch
\* around the single callback)
RECURSIVE FanOutStopAtThrow(_, _, _, _)
FanOutStopAtThrow(W, callbacks, i, throwing) ==
  IF i > Len(callbacks) THEN W
  ELSE LET W1 == [W EXCEPT !.out.calls = Append(@, i)]
       IN  IF i \in throwing THEN W1
           ELSE FanOutStopAtThrow(InvokeCallback(W1, callbacks[i]), callbacks, i + 1, throwing)

\* a loop that looks the list up again before every callback and ends when
\* the list is no longer registered
RECURSIVE FanOutLive(_, _, _, _)
FanOutLive(W, callbacks, i, throwing) ==
  IF i > Len(callbacks) THEN W
  ELSE IF \A ch \in DOMAIN W.redis.channelCallbacks :
             W.redis.channelCallbacks[ch] # callbacks
  THEN W
  ELSE LET W1 == [W EXCEPT !.out.calls = Append(@, i)]
           W2 == IF i \in throwing THEN W1 ELSE InvokeCallback(W1, callbacks[i])
       IN  FanOutLive(W2, callbacks, i + 1, throwing)

\* callbacks.forEach of the message handler, over the array read before the
\* loop; each callback runs in its own try/catch; throwing = the indexes of
\* the callbacks that throw (taken to throw before they do anything)
RECURSIVE FanOut(_, _, _, _)
FanOut(W, callbacks, i, throwing) ==
  IF i > Len(callbacks) THEN W
  ELSE LET W1 == [W EXCEPT !.out.calls = Append(@, i)]
           W2 == IF i \in throwing THEN W1 ELSE InvokeCallback(W1, callbacks[i])
       IN  FanOut(W2, callbacks, i + 1, throwing)

\* RedisClient.messageHandler (the single 'message' listener's body)
MessageHandlerWith(W, channel, json, throwing) ==
  IF ~MapHas(W.redis.channelCallbacks, channel) THEN W
  ELSE LET callbacks == W.redis.channelCallbacks[channel]
           W1 == [W EXCEPT !.out.parses = @ + 1]
       IN  IF Len(callbacks) = 0 THEN W
           ELSE IF ~json THEN W1
           ELSE FanOut(W1, callbacks, 1, throwing)

\* the message handler with the callbacks the registry passes to subscribe,
\* which catch their own send errors and do not throw
MessageHandler(W, channel, json) == MessageHandlerWith(W, channel, json, {})

\* ------------------------------------------------------- AuthService
\* the comparison with the boundary instant included: an entry would still be
\* served at its expiry time, which C8 excludes
CacheFreshInclusive(t, expiresAt) == t <= expiresAt

\* `Date.now() < cached.expiresAt` of validateTokenLocal
CacheFresh(t, expiresAt) == t < expiresAt

\* jwt.verify(token, secret, {algorithms, issuer}): signature and exp claim
JwtVerify(token, t) == Signed(token) /\ t < TokenExp(token)

\* AuthService.validateTokenLocal: [auth, ret, verify], ret the claims or
\* NoClaims, verify the number of jwt.verify calls made
ValidateTokenLocal(A, token, t) ==
  LET hit == MapHas(A.tokenCache, token)
      A1 == IF hit /\ ~CacheFresh(t, A.tokenCache[token].expiresAt)
            THEN [A EXCEPT !.tokenCache = MapDelete(@, token)] ELSE A
  IN  IF hit /\ CacheFresh(t, A.tokenCache[token].expiresAt)
      THEN [auth |-> A, ret |-> A.tokenCache[token].payload, verify |-> 0]
      ELSE IF JwtVerify(token, t)
      THEN [auth |-> [A1 EXCEPT !.tokenCache =
                        MapSet(@, token, [payload |-> Claims(token),
                                          expiresAt |-> t + CacheTTL])],
            ret |-> Claims(token), verify |-> 1]
      ELSE [auth |-> A1, ret |-> NoClaims, verify |-> 1]

\* `now >= data.expiresAt` of clearExpiredTokens
SweepExpired(t, expiresAt) == t >= expiresAt

\* AuthService.clearExpiredTokens
ClearExpiredTokens(A, t) ==
  [A EXCEPT !.tokenCache =
     [k \in {x \in DOMAIN A.tokenCache : ~SweepExpired(t, A.tokenCache[x].expiresAt)}
        |-> A.tokenCache[k]]]

\* ------------------------------------------- handleConnection, continued
\* ws.close(code, reason) by the server
WsClose(W, s, code, reason) ==
  IF W.ws[s].readyState # "OPEN" THEN W
  ELSE [W EXCEPT !.ws[s].readyState = "CLOSING",
                 !.ws[s].closeCode = code, !.ws[s].reason = reason]

\* setupMessageHandlers / setupGuestMessageHandlers: the listeners are
\* attached, ws.isAlive = true, the heartbeat interval is started
SetupHandlers(W, s, kind) ==
  [W EXCEPT !.ws[s].handlers = kind, !.ws[s].isAlive = TRUE, !.ws[s].timer = TRUE]

\* the rest of handleConnection once the subscriptions are done:
\* set up the handlers, send the welcome message
FinishAdmission(W, s, userId) ==
  SendMessage(SetupHandlers(W, s, IF userId = NoUser THEN "guest" ELSE "user"),
              s, "connected")

\* handleConnection from its subscription number `step` on (1, 2: the user's
\* channels, 3: subscribeToPublicChannels, 4: handlers and welcome), up to
\* the next await on the broker: [W, pc, step]
RECURSIVE RunAdmission(_, _, _, _)
RunAdmission(W, s, userId, step) ==
  IF step = 4 THEN [W |-> FinishAdmission(W, s, userId), pc |-> "done", step |-> 4]
  ELSE IF step = 3
  THEN IF ~W.redis.connected \/ W.cm.publicChannelSubscribed
       THEN RunAdmission(W, s, userId, 4)
       ELSE LET r == SubscribeStart(W, PublicChannel, PublicCallback)
            IN  IF r.awaiting THEN [W |-> r.W, pc |-> "subscribe", step |-> 3]
                ELSE RunAdmission([r.W EXCEPT !.cm.publicChannelSubscribed = TRUE],
                                  s, userId, 4)
  ELSE LET r == SubscribeStart(W, UserChannels(userId)[step], UserCallback(userId))
       IN  IF r.awaiting THEN [W |-> r.W, pc |-> "subscribe", step |-> step]
           ELSE RunAdmission(r.W, s, userId, step + 1)

\* redisClient.subscribe has returned to subscription number `step`
AfterSubscribe(W, s, userId, step) ==
  IF step = 3
  THEN RunAdmission([W EXCEPT !.cm.publicChannelSubscribed = TRUE], s, userId, 4)
  ELSE RunAdmission(W, s, userId, step + 1)

\* a guest admission that gives up when the bus is unavailable: what C14
\* rules out
AdmitGuestNeedsBus(W, s) ==
  IF W.redis.connected THEN RunAdmission(AddGuestConnection(W, s), s, NoUser, 3)
  ELSE [W |-> WsClose(W, s, 1011, "Server error"), pc |-> "rejected", step |-> 0]

\* handleConnection for a request without token
AdmitGuest(W, s) ==
  LET W1 == AddGuestConnection(W, s)
  IN  IF W1.redis.connected THEN RunAdmission(W1, s, NoUser, 3)
      ELSE RunAdmission(W1, s, NoUser, 4)

\* handleConnection treating a token that failed validation like an absent
\* one (guest admission): what C10 rules out
AfterValidationLenient(W, s, user) ==
  IF user = NoClaims THEN AdmitGuest(W, s)
  ELSE IF user.id = NoUser
  THEN [W |-> WsClose(W, s, 1008, "Invalid user data"), pc |-> "rejected", step |-> 0]
  ELSE LET W1 == AddConnection(W, user.id, s)
       IN  IF W1.redis.connected THEN RunAdmission(W1, s, user.id, 1)
           ELSE RunAdmission(W1, s, user.id, 4)

\* handleConnection from the result of validateToken on
AfterValidation(W, s, user) ==
  IF user = NoClaims
  THEN [W |-> WsClose(W, s, 1008, "Invalid authentication token"),
        pc |-> "rejected", step |-> 0]
  ELSE IF user.id = NoUser
  THEN [W |-> WsClose(W, s, 1008, "Invalid user data"), pc |-> "rejected", step |-> 0]
  ELSE LET W1 == AddConnection(W, user.id, s)
       IN  IF W1.redis.connected THEN RunAdmission(W1, s, user.id, 1)
           ELSE RunAdmission(W1, s, user.id, 4)

\* the capacity test with a strict comparison: a connection arriving at
\* exactly the maximum would pass, which C6 excludes
AtCapacityStrict(active, maxConnections) == active > maxConnections

\* `stats.active >= config.server.maxConnections` of the 'connection' listener
AtCapacity(active, maxConnections) == active >= maxConnections

\* ------------------------------------------------------------ the state
World == [cm |-> cm, redis |-> redis, ws |-> ws, out |-> NoOut]

InRegistry(c, s) ==
  \/ s \in c.guestConnections
  \/ MapHas(c.userConnections, s)
  \/ \E u \in DOMAIN c.connections : s \in c.connections[u]

\* A WebSocket that is closed, whose handleConnection call has returned, which
\* the registry does not hold, whose heartbeat interval is cleared and which
\* no handleMessage call is waiting to answer is referenced by nothing: its
\* record is dropped.
Unreferenced(W, A, s) ==
  /\ W.ws[s].readyState = "CLOSED"
  /\ ~W.ws[s].timer
  /\ W.ws[s].pending = NoAction
  /\ A[s].pc \in {"done", "rejected", "gone"}
  /\ ~InRegistry(W.cm, s)

GoneSocket ==
  [readyState |-> "CLOSED", closeCode |-> 0, reason |-> "", handlers |-> "none",
   isAlive |-> FALSE, timer |-> FALSE, pending |-> NoAction]

GoneAdmission == [pc |-> "gone", step |-> 0, userId |-> NoUser, bus |-> FALSE]

\* the state a task leaves: W the world, A the handleConnection calls
Commit(W, A) ==
  /\ cm' = W.cm
  /\ redis' = W.redis
  /\ ws' = [s \in Sockets |-> IF Unreferenced(W, A, s) THEN GoneSocket ELSE W.ws[s]]
  /\ adm' = [s \in Sockets |-> IF Unreferenced(W, A, s) THEN GoneAdmission ELSE A[s]]

\* the channel of the subscribe call that handleConnection(s) is suspended in
StepChannel(s) ==
  IF adm[s].step = 3 THEN PublicChannel ELSE UserChannels(adm[s].userId)[adm[s].step]

\* handleConnection(s) suspended at (or returned with) the result r of a run
\* that validated the user; bus = redisClient.isConnected() as the run read it
Admitted(s, r, userId) ==
  [adm EXCEPT ![s] = [pc |-> r.pc, step |-> r.step,
                      userId |-> IF r.pc = "rejected" THEN NoUser ELSE userId,
                      bus |-> r.pc # "rejected" /\ redis.connected]]

\* handleConnection(s) suspended at (or returned with) the result r of a
\* later run
Suspended(s, r) == [adm EXCEPT ![s].pc = r.pc, ![s].step = r.step]

\* process.exit has not been called: the event loop still runs tasks
Running == shutdown # "exited"

\* the state after the constructors of ConnectionManager, RedisClient and
\* AuthService, with the configuration read
Init ==
  /\ started = FALSE
  /\ config \in [maxConnections : 1 .. NumSockets]
  /\ cm = [connections |-> EmptyMap, userConnections |-> EmptyMap,
           guestConnections |-> {}, publicChannelSubscribed |-> FALSE,
           connectionStats |-> [total |-> 0, active |-> 0, byUser |-> EmptyMap,
                                guests |-> 0]]
  /\ redis = [publisher |-> FALSE, subscriber |-> FALSE, connected |-> FALSE,
              subscribedChannels |-> {}, channelCallbacks |-> EmptyMap,
              messageHandler |-> FALSE, listeners |-> 0]
  /\ auth = [tokenCache |-> EmptyMap]
  /\ ws = [s \in Sockets |-> [readyState |-> "NONE", closeCode |-> 0,
                              reason |-> "", handlers |-> "none",
                              isAlive |-> FALSE, timer |-> FALSE,
                              pending |-> NoAction]]
  /\ adm = [s \in Sockets |-> [pc |-> "idle", step |-> 0, userId |-> NoUser,
                               bus |-> FALSE]]
  /\ link = [pub |-> FALSE, sub |-> FALSE, ended |-> {}]
  /\ brokerSubs = {}
  /\ now = 0
  /\ cluster = [forked |-> FALSE, live |-> {}, exited |-> {}, nextId |-> 1, crashes |-> 0]
  /\ feed = [inbox |-> << >>, log |-> [s \in Sockets |-> << >>], count |-> 0]
  /\ shutdown = "no"

\* WebSocketGateway.initialize: redisClient.connect() succeeds (both broker
\* connections up, the 'connect' handler ran, connected = true) or fails
\* (publisher = subscriber = null, connected = false); then the server listens
Initialize(ok) ==
  /\ ~started
  /\ started' = TRUE
  /\ redis' = IF ok
              THEN [redis EXCEPT !.publisher = TRUE, !.subscriber = TRUE,
                                 !.connected = TRUE, !.messageHandler = TRUE,
                                 !.listeners = 1]
              ELSE [redis EXCEPT !.publisher = FALSE, !.subscriber = FALSE,
                                 !.connected = FALSE]
  /\ link' = [pub |-> ok, sub |-> ok, ended |-> {}]
  /\ UNCHANGED <<config, cm, auth, ws, adm, brokerSubs, now, cluster, feed, shutdown>>

\* a connection request can arrive on socket s (sockets are interchangeable:
\* they are created in order)
CanConnect(s) ==
  /\ started
  /\ shutdown = "no"
  /\ adm[s].pc = "idle"
  /\ \A x \in Sockets : x < s => adm[x].pc # "idle"

\* wss.on('connection'): the capacity check, then handleConnection up to its
\* first await on I/O: [W, A, auth, verify]
ConnectionRun(s, token) ==
  LET W0 == [World EXCEPT !.ws[s].readyState = "OPEN"]
  IN  IF AtCapacity(cm.connectionStats.active, config.maxConnections)
      THEN [W |-> WsClose(W0, s, 1008, "Server at capacity"),
            A |-> [adm EXCEPT ![s].pc = "rejected"], auth |-> auth, verify |-> 0]
      ELSE IF token = NoToken
      THEN LET r == AdmitGuest(W0, s)
           IN  [W |-> r.W, A |-> Admitted(s, r, NoUser), auth |-> auth, verify |-> 0]
      ELSE LET v == ValidateTokenLocal(auth, token, now)
           IN  IF v.ret # NoClaims
               THEN LET r == AfterValidation(W0, s, v.ret)
                    IN  [W |-> r.W, A |-> Admitted(s, r, v.ret.id), auth |-> v.auth,
                         verify |-> v.verify]
               ELSE \* validateTokenWithLaravel: axios.post, awaited
                    [W |-> [W0 EXCEPT !.out.http = Append(@, "validate-token")],
                     A |-> [adm EXCEPT ![s].pc = "remote"], auth |-> v.auth,
                     verify |-> v.verify]

Connection(s, token) ==
  /\ CanConnect(s)
  /\ LET r == ConnectionRun(s, token)
     IN  Commit(r.W, r.A) /\ auth' = r.auth
  /\ UNCHANGED <<started, config, link, brokerSubs, now, cluster, feed, shutdown>>

\* validateTokenWithLaravel returns `user`, the backend's answer: [W, A]
RemoteValidatedRun(s, user) ==
  LET r == AfterValidation(World, s, user)
  IN  [W |-> r.W, A |-> Admitted(s, r, user.id)]

\* the backend's answer cached like a locally verified token: what C16
\* rules out
RemoteValidatedCaching(s, user) ==
  /\ adm[s].pc = "remote"
  /\ LET r == RemoteValidatedRun(s, user)
     IN  Commit(r.W, r.A)
  /\ auth' = IF user = NoClaims THEN auth
             ELSE [auth EXCEPT !.tokenCache =
                     MapSet(@, "R", [payload |-> user, expiresAt |-> now + CacheTTL])]
  /\ UNCHANGED <<started, config, link, brokerSubs, now, cluster, feed, shutdown>>

RemoteValidated(s, user) ==
  /\ adm[s].pc = "remote"
  /\ LET r == RemoteValidatedRun(s, user)
     IN  Commit(r.W, r.A)
  /\ UNCHANGED <<started, config, auth, link, brokerSubs, now, cluster, feed, shutdown>>

\* `await this.subscriber.subscribe(channel)` settles: acknowledged by the
\* broker (then NUMSUB is asked of the publisher connection, if it is ready),
\* or rejected (caught and logged by RedisClient.subscribe, which returns)
SubscribeAckRun(s, ok) ==
  LET ch == StepChannel(s)
      W1 == [World EXCEPT !.redis.subscribedChannels = @ \cup {ch}]
  IN  IF ok /\ redis.publisher /\ link.pub
      THEN [W |-> Command(W1, "PUBSUB NUMSUB", ch), A |-> [adm EXCEPT ![s].pc = "numsub"]]
      ELSE LET r == AfterSubscribe(IF ok THEN W1 ELSE World, s, adm[s].userId, adm[s].step)
           IN  [W |-> r.W, A |-> Suspended(s, r)]

SubscribeAck(s, ok) ==
  /\ Running
  /\ adm[s].pc = "subscribe"
  /\ ok => link.sub
  /\ LET r == SubscribeAckRun(s, ok)
     IN  Commit(r.W, r.A)
  /\ brokerSubs' = IF ok THEN brokerSubs \cup {StepChannel(s)} ELSE brokerSubs
  /\ UNCHANGED <<started, config, auth, link, now, cluster, feed, shutdown>>

\* `await this.publisher.pubsub('NUMSUB', channel)` settles; subscribe returns
SubscribeReturnRun(s) ==
  LET r == AfterSubscribe(World, s, adm[s].userId, adm[s].step)
  IN  [W |-> r.W, A |-> Suspended(s, r)]

SubscribeReturn(s) ==
  /\ Running
  /\ adm[s].pc = "numsub"
  /\ LET r == SubscribeReturnRun(s)
     IN  Commit(r.W, r.A)
  /\ UNCHANGED <<started, config, auth, link, brokerSubs, now, cluster, feed, shutdown>>

\* the broker can deliver a message on `channel` to the 'message' listener
CanDeliver(channel) ==
  /\ redis.subscriber /\ link.sub /\ redis.listeners > 0
  /\ channel \in brokerSubs

\* subscriber.on('message'): one message on a channel; json = it parses as JSON
Deliver(channel, json) == MessageHandler(World, channel, json)

BusMessage(channel, json) ==
  /\ CanDeliver(channel)
  /\ Commit(Deliver(channel, json), adm)
  /\ UNCHANGED <<started, config, auth, link, brokerSubs, now, cluster, feed, shutdown>>

\* ws 'message' on a socket with the guest listener, or with no listener yet
\* (an EventEmitter drops an event nobody listens to); json = it parses as JSON
FrameRun(s, json) ==
  IF ws[s].handlers = "guest" THEN SendError(World, s) ELSE World

InboundFrame(s, json) ==
  /\ ws[s].readyState = "OPEN"
  /\ ws[s].handlers # "user"
  /\ Commit(FrameRun(s, json), adm)
  /\ UNCHANGED <<started, config, auth, link, brokerSubs, now, cluster, feed, shutdown>>

\* the peer's close frame arrives: readyState becomes CLOSING
PeerClosing(s) ==
  /\ ws[s].readyState = "OPEN"
  /\ Commit([World EXCEPT !.ws[s].readyState = "CLOSING"], adm)
  /\ UNCHANGED <<started, config, auth, link, brokerSubs, now, cluster, feed, shutdown>>

\* ws 'close': readyState CLOSED, then the 'close' listeners, if attached:
\* removeConnection(ws), then clearInterval(heartbeatInterval)
SocketCloseRun(s) ==
  LET W0 == [World EXCEPT !.ws[s].readyState = "CLOSED"]
  IN  IF ws[s].handlers # "none"
      THEN [RemoveConnection(W0, s) EXCEPT !.ws[s].timer = FALSE]
      ELSE W0

SocketClose(s) ==
  /\ Running
  /\ ws[s].readyState \in {"OPEN", "CLOSING"}
  /\ Commit(SocketCloseRun(s), adm)
  /\ UNCHANGED <<started, config, auth, link, brokerSubs, now, cluster, feed, shutdown>>

\* ws 'error': readyState CLOSING, then the 'error' listener, if attached
SocketErrorRun(s) ==
  LET W0 == [World EXCEPT !.ws[s].readyState = "CLOSING"]
  IN  IF ws[s].handlers # "none" THEN RemoveConnection(W0, s) ELSE W0

SocketError(s) ==
  /\ ws[s].readyState = "OPEN"
  /\ Commit(SocketErrorRun(s), adm)
  /\ UNCHANGED <<started, config, auth, link, brokerSubs, now, cluster, feed, shutdown>>

\* subscriber.on('error')
SubscriberError ==
  /\ Running
  /\ redis.subscriber /\ link.sub
  /\ link' = [link EXCEPT !.sub = FALSE]
  /\ redis' = [redis EXCEPT !.connected = FALSE]
  /\ UNCHANGED <<started, config, cm, auth, ws, adm, brokerSubs, now, cluster, feed, shutdown>>

\* subscriber.on('connect') after a reconnection; ioredis then restores the
\* subscriptions the connection had (autoResubscribe)
SubscriberConnect ==
  /\ Running
  /\ redis.subscriber /\ ~link.sub /\ "sub" \notin link.ended
  /\ link' = [link EXCEPT !.sub = TRUE]
  /\ Commit(SetupMessageHandler([World EXCEPT !.redis.connected = TRUE]), adm)
  /\ UNCHANGED <<started, config, auth, brokerSubs, now, cluster, feed, shutdown>>

\* the "response" frame of handleMessage
ResponseFrame(action, data) == [type |-> "response", action |-> action, data |-> data]

\* a 'message' listener that forwards the frame without parsing it
UserFrameRunUnparsed(s, json, action) ==
  [World EXCEPT !.out.http = Append(@, "websocket/message"),
                !.ws[s].pending = action]

\* ws 'message' on an authenticated socket: JSON.parse, then handleMessage up
\* to `await axios.post` of forwardToLaravel; json = the frame parses to
\* {action, data}
UserFrameRun(s, json, action) ==
  IF ~json THEN SendError(World, s)
  ELSE [World EXCEPT !.out.http = Append(@, "websocket/message"),
                     !.ws[s].pending = action]

\* (one handleMessage call in flight per socket)
UserFrame(s, json, action) ==
  /\ ws[s].readyState = "OPEN"
  /\ ws[s].handlers = "user"
  /\ ws[s].pending = NoAction
  /\ Commit(UserFrameRun(s, json, action), adm)
  /\ UNCHANGED <<started, config, auth, link, brokerSubs, now, cluster, feed, shutdown>>

\* forwardToLaravel returns `result`; handleMessage answers
ForwardReturnRun(s, result) ==
  LET W0 == [World EXCEPT !.ws[s].pending = NoAction]
  IN  IF result.truthy
      THEN SendMessage(W0, s, ResponseFrame(ws[s].pending, result))
      ELSE W0

ForwardReturn(s, result) ==
  /\ ws[s].pending # NoAction
  /\ Commit(ForwardReturnRun(s, result), adm)
  /\ UNCHANGED <<started, config, auth, link, brokerSubs, now, cluster, feed, shutdown>>

\* ws.terminate()
WsTerminate(W, s) ==
  IF W.ws[s].readyState = "CLOSED" THEN W
  ELSE [W EXCEPT !.ws[s].readyState = "CLOSING"]

\* a heartbeat callback that only ever probes
HeartbeatRunProbeOnly(s) ==
  [World EXCEPT !.ws[s].isAlive = FALSE, !.out.pings = Append(@, s)]

\* the setInterval callback of the heartbeat
HeartbeatRun(s) ==
  IF ws[s].isAlive = FALSE
  THEN WsTerminate([World EXCEPT !.ws[s].timer = FALSE], s)
  ELSE [World EXCEPT !.ws[s].isAlive = FALSE, !.out.pings = Append(@, s)]

HeartbeatTick(s) ==
  /\ ws[s].timer
  /\ Commit(HeartbeatRun(s), adm)
  /\ UNCHANGED <<started, config, auth, link, brokerSubs, now, cluster, feed, shutdown>>

\* ws 'pong': ws.isAlive = true, if the listener is attached
PongRun(s) ==
  IF ws[s].handlers # "none" THEN [World EXCEPT !.ws[s].isAlive = TRUE] ELSE World

Pong(s) ==
  /\ ws[s].readyState = "OPEN"
  /\ Commit(PongRun(s), adm)
  /\ UNCHANGED <<started, config, auth, link, brokerSubs, now, cluster, feed, shutdown>>

Next ==
  \/ \E ok \in BOOLEAN : Initialize(ok)
  \/ \E s \in Sockets, token \in ConnectTokens : Connection(s, token)
  \/ \E s \in Sockets, user \in RemoteAnswers : RemoteValidated(s, user)
  \/ \E s \in Sockets, ok \in BOOLEAN : SubscribeAck(s, ok)
  \/ \E s \in Sockets : SubscribeReturn(s)
  \/ \E channel \in Channels, json \in BOOLEAN : BusMessage(channel, json)
  \/ \E s \in Sockets, json \in BOOLEAN : InboundFrame(s, json)
  \/ \E s \in Sockets : PeerClosing(s)
  \/ \E s \in Sockets : SocketClose(s)
  \/ \E s \in Sockets : SocketError(s)
  \/ SubscriberError
  \/ SubscriberConnect

Spec == Init /\ [][Next]_vars

\* ------------------------------------- the life of admitted connections
\* admissions, the commands of authenticated connections and the heartbeat,
\* with a broker that answers every subscribe and publishes nothing
NextSession ==
  \/ \E ok \in BOOLEAN : Initialize(ok)
  \/ \E s \in Sockets, token \in ConnectTokens : Connection(s, token)
  \/ \E s \in Sockets, user \in RemoteAnswers : RemoteValidated(s, user)
  \/ \E s \in Sockets : SubscribeAck(s, TRUE)
  \/ \E s \in Sockets : SubscribeReturn(s)
  \/ \E s \in Sockets, json \in BOOLEAN, action \in Actions : UserFrame(s, json, action)
  \/ \E s \in Sockets, result \in ForwardResults : ForwardReturn(s, result)
  \/ \E s \in Sockets : HeartbeatTick(s)
  \/ \E s \in Sockets : Pong(s)
  \/ \E s \in Sockets : SocketClose(s)

SpecSession == Init /\ [][NextSession]_vars

\* ------------------------------------------- the order of bus messages
\* a message published on `channel` is read from the subscriber connection;
\* id = its position in the order of arrival
Receive(channel) ==
  /\ CanDeliver(channel)
  /\ feed.count < MaxMessages
  /\ feed' = [feed EXCEPT !.inbox = Append(@, [channel |-> channel, id |-> feed.count + 1]),
                          !.count = @ + 1]
  /\ UNCHANGED <<started, config, cm, redis, auth, ws, adm, link, brokerSubs, now, cluster, shutdown>>

\* an emitter that hands over the message read last
NextMessageNewest(inbox) == inbox[Len(inbox)]

\* the message the 'message' event is emitted for next: the one read first
NextMessage(inbox) == Head(inbox)

\* `times` copies of m
RECURSIVE Copies(_, _)
Copies(m, times) == IF times = 0 THEN << >> ELSE <<m>> \o Copies(m, times - 1)

\* subscriber.on('message') for the next message: the handler runs to its end,
\* every ws.send of the fan-out included, before the next event is emitted
Handle ==
  /\ feed.inbox # << >>
  /\ LET m == NextMessage(feed.inbox)
         W == MessageHandler(World, m.channel, TRUE)
     IN  /\ Commit(W, adm)
         /\ feed' = [feed EXCEPT
               !.inbox = SelectSeq(@, LAMBDA x : x # m),
               !.log = [s \in Sockets |->
                          @[s] \o Copies(m, Count(W.out.sent[s], "push"))]]
  /\ UNCHANGED <<started, config, auth, link, brokerSubs, now, cluster, shutdown>>

\* admissions of guests and of user u1 with a broker that answers every
\* subscribe, and the messages the broker publishes
NextOrder ==
  \/ Initialize(TRUE)
  \/ \E s \in Sockets, token \in {NoToken, "L1"} : Connection(s, token)
  \/ \E s \in Sockets : SubscribeAck(s, TRUE)
  \/ \E s \in Sockets : SubscribeReturn(s)
  \/ \E channel \in Channels : Receive(channel)
  \/ Handle
  \/ \E s \in Sockets : SocketClose(s)

SpecOrder == Init /\ [][NextOrder]_vars

\* ------------------------------------ exceptions inside handleConnection
\* the catch block of handleConnection: ws.close(1011, 'Server error')
CatchRun(W, s) == WsClose(W, s, 1011, "Server error")

\* handleConnection(s) resumes from an await and an exception escapes to its
\* catch block: validateToken rejects (nothing is registered yet), or the
\* code after the last subscription throws (the connection is registered,
\* subscribeToPublicChannels has set its flag, no listener is attached yet)
CanThrow(s) ==
  \/ adm[s].pc = "remote"
  \/ adm[s].pc = "numsub" /\ adm[s].step = 3

ThrowRun(s) ==
  CatchRun(IF adm[s].pc = "remote" THEN World
           ELSE [World EXCEPT !.cm.publicChannelSubscribed = TRUE], s)

AdmissionThrows(s) ==
  /\ CanThrow(s)
  /\ Commit(ThrowRun(s), [adm EXCEPT ![s].pc = "failed"])
  /\ UNCHANGED <<started, config, auth, link, brokerSubs, now, cluster, feed, shutdown>>

\* admissions in which an exception can escape, with a broker that answers
\* every subscribe
NextFault ==
  \/ \E ok \in BOOLEAN : Initialize(ok)
  \/ \E s \in Sockets, token \in ConnectTokens : Connection(s, token)
  \/ \E s \in Sockets, user \in RemoteAnswers : RemoteValidated(s, user)
  \/ \E s \in Sockets : SubscribeAck(s, TRUE)
  \/ \E s \in Sockets : SubscribeReturn(s)
  \/ \E s \in Sockets : AdmissionThrows(s)
  \/ \E s \in Sockets : PeerClosing(s)
  \/ \E s \in Sockets : SocketClose(s)

SpecFault == Init /\ [][NextFault]_vars

\* ------------------------------- the broker connections and the shutdown
\* publisher.on('error')
PublisherError ==
  /\ Running
  /\ redis.publisher /\ link.pub
  /\ link' = [link EXCEPT !.pub = FALSE]
  /\ redis' = [redis EXCEPT !.connected = FALSE]
  /\ UNCHANGED <<started, config, cm, auth, ws, adm, brokerSubs, now, cluster, feed, shutdown>>

\* publisher.on('connect') after a reconnection: a log line
PublisherConnect ==
  /\ Running
  /\ redis.publisher /\ ~link.pub /\ "pub" \notin link.ended
  /\ link' = [link EXCEPT !.pub = TRUE]
  /\ UNCHANGED <<started, config, cm, redis, auth, ws, adm, brokerSubs, now, cluster, feed, shutdown>>

\* RedisClient.disconnect and the end of shutdown, from the subscriber's quit
\* on: the phase shutdown() is in next
QuitSubscriber(R) == IF R.subscriber THEN "quitSub" ELSE "exited"

\* SIGTERM, SIGINT, POST /shutdown or an uncaught exception: shutdown() up to
\* the first quit it awaits; wss.close() and server.close() stop the
\* listener; with no broker connection objects it runs through to
\* process.exit(0)
ShutdownStart ==
  /\ started
  /\ shutdown \in {"no", "failed"}
  /\ shutdown' = IF redis.publisher THEN "quitPub" ELSE QuitSubscriber(redis)
  /\ redis' = IF ~redis.publisher /\ ~redis.subscriber
              THEN [redis EXCEPT !.connected = FALSE] ELSE redis
  /\ UNCHANGED <<started, config, cm, auth, ws, adm, link, brokerSubs, now, cluster, feed>>

\* `await this.publisher.quit()` / `await this.subscriber.quit()` settles: the
\* command is rejected when the connection is down (enableOfflineQueue is
\* false) and the rejection leaves disconnect() and shutdown() through their
\* awaits, nothing catching it; otherwise the connection is closed for good
QuitSettles ==
  /\ shutdown \in {"quitPub", "quitSub"}
  /\ IF shutdown = "quitPub"
     THEN /\ shutdown' = IF link.pub THEN QuitSubscriber(redis) ELSE "failed"
          /\ link' = IF link.pub
                     THEN [link EXCEPT !.pub = FALSE, !.ended = @ \cup {"pub"}]
                     ELSE link
          /\ redis' = IF link.pub /\ ~redis.subscriber
                      THEN [redis EXCEPT !.connected = FALSE] ELSE redis
     ELSE /\ shutdown' = IF link.sub THEN "exited" ELSE "failed"
          /\ link' = IF link.sub
                     THEN [link EXCEPT !.sub = FALSE, !.ended = @ \cup {"sub"}]
                     ELSE link
          /\ redis' = IF link.sub THEN [redis EXCEPT !.connected = FALSE] ELSE redis
  /\ UNCHANGED <<started, config, cm, auth, ws, adm, brokerSubs, now, cluster, feed>>

\* the worker process from its start to process.exit: the broker
\* connections fail and are re-established, guests connect and leave,
\* shutdown is requested
NextLifecycle ==
  \/ \E ok \in BOOLEAN : Initialize(ok)
  \/ \E s \in Sockets : Connection(s, NoToken)
  \/ \E s \in Sockets : SubscribeAck(s, TRUE)
  \/ \E s \in Sockets : SubscribeReturn(s)
  \/ \E s \in Sockets : SocketClose(s)
  \/ PublisherError
  \/ PublisherConnect
  \/ SubscriberError
  \/ SubscriberConnect
  \/ ShutdownStart
  \/ QuitSettles

\* ioredis reconnects a lost connection (retryStrategy), and a quit that was
\* sent is answered or rejected
SpecLifecycle ==
  /\ Init /\ [][NextLifecycle]_vars
  /\ WF_vars(PublisherConnect)
  /\ WF_vars(SubscriberConnect)
  /\ WF_vars(QuitSettles)

\* --------------------------------------------------- the cluster primary
\* the primary's start: the fork loop, cluster.fork() numWorkers times
PrimaryStart ==
  /\ ~cluster.forked
  /\ cluster' = [cluster EXCEPT !.forked = TRUE, !.live = 1 .. NumWorkers,
                                !.nextId = NumWorkers + 1]
  /\ UNCHANGED <<started, config, cm, redis, auth, ws, adm, link, brokerSubs, now, feed, shutdown>>

\* a worker process exits (crash, kill, process.exit): its 'exit' event is
\* queued for the primary
WorkerExit(w) ==
  /\ w \in cluster.live
  /\ cluster.crashes < MaxCrashes
  /\ cluster' = [cluster EXCEPT !.live = @ \ {w}, !.exited = @ \cup {w},
                                !.crashes = @ + 1]
  /\ UNCHANGED <<started, config, cm, redis, auth, ws, adm, link, brokerSubs, now, feed, shutdown>>

\* an 'exit' handler that only logs
OnExitLogOnly(w) ==
  /\ w \in cluster.exited
  /\ cluster' = [cluster EXCEPT !.exited = @ \ {w}]
  /\ UNCHANGED <<started, config, cm, redis, auth, ws, adm, link, brokerSubs, now, feed, shutdown>>

\* cluster.on('exit'): cluster.fork()
OnExit(w) ==
  /\ w \in cluster.exited
  /\ cluster' = [cluster EXCEPT !.exited = @ \ {w}, !.live = @ \cup {cluster.nextId},
                                !.nextId = @ + 1]
  /\ UNCHANGED <<started, config, cm, redis, auth, ws, adm, link, brokerSubs, now, feed, shutdown>>

WorkerIds == 1 .. (NumWorkers + MaxCrashes)

NextCluster ==
  \/ PrimaryStart
  \/ \E w \in WorkerIds : WorkerExit(w)
  \/ \E w \in WorkerIds : OnExit(w)

\* the primary's event loop runs the fork loop and handles every queued
\* 'exit' event
SpecCluster ==
  /\ Init /\ [][NextCluster]_vars
  /\ WF_vars(PrimaryStart)
  /\ \A w \in WorkerIds : WF_vars(OnExit(w))

\* ---------------------------------------------- the token validator alone
\* the clock advances
Tick ==
  /\ now < MaxTime
  /\ now' = now + 1
  /\ UNCHANGED <<started, config, cm, redis, auth, ws, adm, link, brokerSubs, cluster, feed, shutdown>>

\* a call of validateTokenLocal(token)
Lookup(token) ==
  /\ auth' = ValidateTokenLocal(auth, token, now).auth
  /\ UNCHANGED <<started, config, cm, redis, ws, adm, link, brokerSubs, now, cluster, feed, shutdown>>

\* the setInterval callback: authService.clearExpiredTokens()
Sweep ==
  /\ auth' = ClearExpiredTokens(auth, now)
  /\ UNCHANGED <<started, config, cm, redis, ws, adm, link, brokerSubs, now, cluster, feed, shutdown>>

NextAuth ==
  \/ Tick
  \/ \E token \in Tokens : Lookup(token)
  \/ Sweep

SpecAuth == Init /\ [][NextAuth]_vars

\* =================================================================== claims
\* a subscribe call for `channel` is suspended between its SUBSCRIBE command
\* and the broker's answer
SubscribePending(channel) ==
  \E s \in Sockets : adm[s].pc = "subscribe" /\ StepChannel(s) = channel

HasCallbacks(channel) ==
  MapHas(redis.channelCallbacks, channel) /\ Len(redis.channelCallbacks[channel]) >= 1

\* C1: once the subscribe calls for a channel have settled, a channel with at
\* least one registered callback is in the bus client's subscribed set (a
\* set: it holds the channel once).
C1_CallbacksImplySubscribed ==
  \A channel \in Channels :
    (HasCallbacks(channel) /\ ~SubscribePending(channel))
      => channel \in redis.subscribedChannels

\* the socket is the last registered connection of its user, its close
\* listener is attached and the bus is connected
LastOfUser(s) ==
  /\ ws[s].handlers = "user"
  /\ ws[s].readyState \in {"OPEN", "CLOSING"}
  /\ MapHas(cm.userConnections, s)
  /\ MapHas(cm.connections, cm.userConnections[s])
  /\ cm.connections[cm.userConnections[s]] = {s}
  /\ redis.connected

\* C2: when the last connection of a user closes while the bus is connected,
\* exactly one UNSUBSCRIBE is issued for each of the user's subscribed
\* channels and the channel leaves the subscribed set.
C2_LastCloseUnsubscribes ==
  \A s \in Sockets :
    LastOfUser(s) =>
      LET W == SocketCloseRun(s)
          chans == UserChannels(cm.userConnections[s])
      IN  \A i \in 1 .. 2 :
            chans[i] \in redis.subscribedChannels =>
              /\ Count(W.out.cmds, <<"UNSUBSCRIBE", chans[i]>>) = 1
              /\ chans[i] \notin W.redis.subscribedChannels

\* a socket that is registered (guest or authenticated) and open
OpenRegistered(s) == InRegistry(cm, s) /\ ws[s].readyState = "OPEN"

\* no handleConnection call is suspended on socket s
AdmissionSettled(s) == adm[s].pc \in {"idle", "done", "rejected", "gone"}

\* C3: one message on the public channel is sent exactly once to every open
\* socket of the registry, guest or authenticated, whatever admissions
\* came before (taken here in the states where every admission has finished).
C3_PublicExactlyOnce ==
  \A json \in BOOLEAN :
    (json /\ CanDeliver(PublicChannel) /\ \A x \in Sockets : AdmissionSettled(x)) =>
      \A s \in Sockets :
        OpenRegistered(s) =>
          Count(Deliver(PublicChannel, json).out.sent[s], "push") = 1

\* the open registered sockets of a user, each admitted by handleConnection
\* with the bus connected and with its admission finished
OpenOf(userId) ==
  {s \in Sockets : /\ OpenRegistered(s)
                   /\ MapHas(cm.userConnections, s)
                   /\ cm.userConnections[s] = userId}

AdmittedWithBus(s) == adm[s].pc = "done" /\ adm[s].bus

\* C4: a user with k >= 2 open connections, each admitted with the bus
\* connected: one message on a channel of that user is sent to each of the k
\* sockets exactly once, and the channel is subscribed upstream.
C4_UserExactlyOncePerSocket ==
  \A userId \in Users, i \in 1 .. 2 :
    LET channel == UserChannels(userId)[i]
        open == OpenOf(userId)
    IN  (/\ Cardinality(open) >= 2
         /\ \A s \in open : AdmittedWithBus(s)
         /\ CanDeliver(channel))
          => /\ channel \in redis.subscribedChannels
             /\ \A s \in open :
                  Count(Deliver(channel, TRUE).out.sent[s], "push") = 1

\* the owner of a socket: the user it was admitted for
OwnedBy(s, userId) ==
  /\ MapHas(cm.userConnections, s)
  /\ cm.userConnections[s] = userId
  /\ adm[s].userId = userId
  /\ s \notin cm.guestConnections

C6_AtCapacityRejected ==
  /\ \A s \in Sockets, token \in ConnectTokens :
       (CanConnect(s) /\ cm.connectionStats.active = config.maxConnections) =>
         LET r == ConnectionRun(s, token)
         IN  /\ r.W.ws[s].closeCode = 1008
             /\ r.W.ws[s].reason = "Server at capacity"
             /\ r.W.ws[s].readyState # "OPEN"
             /\ r.W.cm = cm
             /\ r.W.redis = redis
             /\ r.auth = auth
             /\ r.W.out = NoOut
             /\ ~InRegistry(r.W.cm, s)
             /\ r.A[s].pc = "rejected"
  /\ \A s \in Sockets : ws[s].reason = "Server at capacity" => ~InRegistry(cm, s)

\* C6's case: a socket has been closed for capacity while the active count
\* was at the maximum
C6_Witness ==
  \E s \in Sockets :
    /\ ws[s].reason = "Server at capacity" /\ ws[s].closeCode = 1008
    /\ cm.connectionStats.active = config.maxConnections

\* C7: the active connection count never exceeds the configured maximum,
\* under any interleaving of connection attempts.
C7_ActiveWithinMaximum == cm.connectionStats.active <= config.maxConnections

\* C8: an entry cached at time T expires at T + CacheTTL.  A lookup before the
\* expiry returns the cached claims without verifying the signature and
\* leaves the cache alone; a lookup at or after the expiry does not return
\* the entry: the entry is deleted and the signature verified again (and the
\* token cached anew only if it verifies).  The sweep removes exactly the
\* entries whose expiry is at or before the current time.
C8_CacheTTL ==
  /\ \A token \in DOMAIN auth.tokenCache :
       auth.tokenCache[token].expiresAt <= now + CacheTTL
  /\ \A token \in Tokens :
       LET v == ValidateTokenLocal(auth, token, now)
           cached == MapHas(auth.tokenCache, token)
       IN  IF cached /\ now < auth.tokenCache[token].expiresAt
           THEN /\ v.verify = 0
                /\ v.ret = auth.tokenCache[token].payload
                /\ v.auth = auth
           ELSE /\ v.verify = 1
                /\ IF Signed(token) /\ now < TokenExp(token)
                   THEN /\ v.ret = Claims(token)
                        /\ MapHas(v.auth.tokenCache, token)
                        /\ v.auth.tokenCache[token].expiresAt = now + CacheTTL
                   ELSE /\ v.ret = NoClaims
                        /\ ~MapHas(v.auth.tokenCache, token)
                /\ \A other \in Tokens \ {token} :
                     /\ MapHas(v.auth.tokenCache, other) = MapHas(auth.tokenCache, other)
                     /\ MapHas(auth.tokenCache, other) =>
                          v.auth.tokenCache[other] = auth.tokenCache[other]
  /\ LET swept == ClearExpiredTokens(auth, now).tokenCache
     IN  /\ DOMAIN swept = {token \in DOMAIN auth.tokenCache :
                              now < auth.tokenCache[token].expiresAt}
         /\ \A token \in DOMAIN swept : swept[token] = auth.tokenCache[token]

\* C8's case: the cache holds an entry exactly at its expiry time, and
\* another one still before it
C8_Witness ==
  \E token, other \in DOMAIN auth.tokenCache :
    /\ now = auth.tokenCache[token].expiresAt
    /\ now < auth.tokenCache[other].expiresAt

\* C9: every inbound frame of a guest connection, JSON or not, is answered
\* by exactly one error frame; no call to the backend is made, and the guest
\* stays open and in the guest set.
C9_GuestFrameOneError ==
  \A s \in Sockets, json \in BOOLEAN :
    (s \in cm.guestConnections /\ ws[s].readyState = "OPEN") =>
      LET W == FrameRun(s, json)
      IN  /\ W.out.sent[s] = <<"error">>
          /\ W.out.http = << >>
          /\ W.ws[s].readyState = "OPEN"
          /\ s \in W.cm.guestConnections

AwaitingWelcome(s) ==
  /\ adm[s].pc \in {"subscribe", "numsub"}
  /\ InRegistry(cm, s)
  /\ ws[s].readyState = "OPEN"

\* C11: the first frame sent on an admitted socket is its "connected" frame:
\* while the admission is still awaiting its channel subscriptions, a bus
\* message sends nothing on the socket.
C11_ConnectedFrameFirst ==
  \A s \in Sockets, channel \in Channels, json \in BOOLEAN :
    (AwaitingWelcome(s) /\ CanDeliver(channel)) =>
      Deliver(channel, json).out.sent[s] = << >>

\* C15: while the bus client is not connected (after a failed connection
\* attempt isConnected() is false), subscribe and publish return normally as
\* no-ops: neither rejects, and no subscription or callback state changes.
C15_DisconnectedCallsAreNoOps ==
  (started /\ ~redis.connected) =>
    \A channel \in Channels :
      /\ SubscribeStart(World, channel, PublicCallback) = [W |-> World, awaiting |-> FALSE]
      /\ Publish(World, channel).W = World
      /\ Publish(World, channel).outcome # "rejected"

\* C20: stats().total counts every connection ever admitted, authenticated
\* or guest: it is never below the active count.
C20_TotalCountsEveryAdmission ==
  cm.connectionStats.total >= cm.connectionStats.active

\* C16: validateToken asks the backend only when local validation returned no
\* claims, never when it succeeded; the backend's answer leaves the token
\* cache unchanged, so the cache only ever holds locally verified tokens and
\* the next validation of a remotely accepted token asks the backend again.
C16_RemoteOnlyAfterLocalFailure ==
  /\ [](\A s \in Sockets, token \in ConnectTokens \ {NoToken} :
          (CanConnect(s) /\ ~AtCapacity(cm.connectionStats.active, config.maxConnections)) =>
            LET v == ValidateTokenLocal(auth, token, now)
                r == ConnectionRun(s, token)
            IN  IF v.ret # NoClaims
                THEN r.W.out.http = << >> /\ r.A[s].pc # "remote"
                ELSE r.W.out.http = <<"validate-token">> /\ r.A[s].pc = "remote")
  /\ [](\A token \in DOMAIN auth.tokenCache : Signed(token))
  /\ [][\A s \in Sockets :
          (adm[s].pc = "remote" /\ adm'[s].pc # "remote") => auth' = auth]_vars

\* C16's case: a connection accepted by the backend is registered, and its
\* token is not in the cache
C16_Witness ==
  \E s \in Sockets :
    /\ adm[s].userId = "u2" /\ InRegistry(cm, s)
    /\ ~MapHas(auth.tokenCache, "R")

\* a handleMessage call of socket s is awaiting the backend and s is open
AwaitingBackend(s) == ws[s].pending # NoAction /\ ws[s].readyState = "OPEN"

\* C12: for a well-formed frame {action, data} of an authenticated connection
\* that stays open, exactly one "response" frame with the same action and the
\* backend's response body is sent back, whatever the body (truthy or falsy).
C12_OneResponsePerCommand ==
  \A s \in Sockets, body \in {OkBody, FalsyBody} :
    AwaitingBackend(s) =>
      ForwardReturnRun(s, body).out.sent[s] = <<ResponseFrame(ws[s].pending, body)>>

\* C13: when the backend call fails (transport error or timeout), the
\* originating connection is sent one "response" frame for the action whose
\* data carries success:false and an error message, and no other connection
\* is sent anything.
C13_FailureAnswered ==
  \A s \in Sockets :
    AwaitingBackend(s) =>
      LET W == ForwardReturnRun(s, ForwardFailure)
      IN  /\ Len(W.out.sent[s]) = 1
          /\ W.out.sent[s][1].type = "response"
          /\ W.out.sent[s][1].action = ws[s].pending
          /\ W.out.sent[s][1].data.success = "false"
          /\ W.out.sent[s][1].data.message # "absent"
          /\ \A x \in Sockets \ {s} : W.out.sent[x] = << >>
          /\ W.cm = cm /\ W.redis = redis

\* C14: while the bus is disconnected, admissions (guest, locally validated,
\* validated by the backend) end with the socket registered, open and sent
\* its "connected" frame, and a forwarded command is answered; nothing is
\* closed and no broker command is written.
C14_StandaloneMode ==
  (started /\ ~redis.connected) =>
    /\ \A s \in Sockets, token \in {NoToken, "L1"} :
         (CanConnect(s) /\ ~AtCapacity(cm.connectionStats.active, config.maxConnections)) =>
           LET r == ConnectionRun(s, token)
           IN  /\ r.A[s].pc = "done"
               /\ r.W.out.sent[s] = <<"connected">>
               /\ r.W.out.cmds = << >>
               /\ r.W.ws[s].readyState = "OPEN"
               /\ r.W.ws[s].handlers = IF token = NoToken THEN "guest" ELSE "user"
               /\ InRegistry(r.W.cm, s)
               /\ r.W.cm.connectionStats.active = cm.connectionStats.active + 1
    /\ \A s \in Sockets :
         (adm[s].pc = "remote" /\ ws[s].readyState = "OPEN") =>
           LET r == RemoteValidatedRun(s, [id |-> "u2"])
           IN  /\ r.A[s].pc = "done"
               /\ r.W.out.sent[s] = <<"connected">>
               /\ r.W.out.cmds = << >>
               /\ r.W.ws[s].readyState = "OPEN"
               /\ MapHas(r.W.cm.userConnections, s)
    /\ \A s \in Sockets :
         AwaitingBackend(s) =>
           LET W == ForwardReturnRun(s, OkBody)
           IN  /\ W.out.sent[s] = <<ResponseFrame(ws[s].pending, OkBody)>>
               /\ W.ws[s].readyState = "OPEN"
               /\ W.out.cmds = << >>

\* C14's case: with the bus disconnected, a guest and an authenticated
\* connection are admitted and a command is awaiting the backend
C14_Witness ==
  /\ started /\ ~redis.connected
  /\ \E s, g \in Sockets :
       /\ AwaitingBackend(s) /\ adm[s].pc = "done"
       /\ g \in cm.guestConnections /\ adm[g].pc = "done" /\ ws[g].readyState = "OPEN"

\* C17: every admitted open connection has a heartbeat; a tick that finds
\* isAlive false (no pong since the previous tick) cancels the timer and
\* terminates the connection, any other tick leaves the connection as it is,
\* sets isAlive false and sends one probe; a pong sets isAlive true, and
\* nothing else does once the listeners are attached.
C17_HeartbeatSupervision ==
  /\ [](\A s \in Sockets :
          /\ (ws[s].handlers # "none" /\ ws[s].readyState = "OPEN") => ws[s].timer
          /\ ws[s].timer =>
               LET W == HeartbeatRun(s)
               IN  IF ~ws[s].isAlive
                   THEN /\ ~W.ws[s].timer
                        /\ W.ws[s].readyState \in {"CLOSING", "CLOSED"}
                        /\ W.out.pings = << >>
                   ELSE /\ W.ws[s] = [ws[s] EXCEPT !.isAlive = FALSE]
                        /\ W.out.pings = <<s>>
          /\ (ws[s].handlers # "none" /\ ws[s].readyState = "OPEN") =>
               PongRun(s).ws[s].isAlive)
  /\ [][\A s \in Sockets :
          (~ws[s].isAlive /\ ws'[s].isAlive) =>
             \/ ws[s].handlers = "none"
             \/ ws[s].readyState = "OPEN" /\ ws' = [ws EXCEPT ![s].isAlive = TRUE]]_vars

\* C17's case: an admitted connection that answered no probe has been
\* terminated by its heartbeat, its timer cancelled
C17_Witness ==
  \E s \in Sockets :
    /\ ws[s].handlers # "none" /\ adm[s].pc = "done"
    /\ ws[s].readyState = "CLOSING" /\ ~ws[s].timer /\ ~ws[s].isAlive
    /\ ws[s].closeCode = 0

\* C18: a closed socket has no active heartbeat timer, whatever closed it and
\* whenever it closed.
C18_NoTimerOnClosedSocket ==
  \A s \in Sockets : ws[s].readyState = "CLOSED" => ~ws[s].timer

\* C19: the primary forks exactly one replacement for every worker that
\* exits, so after a finite number of worker exits the number of live
\* workers is eventually the configured count for good.
C19_WorkersRespawned ==
  /\ [][\A w \in WorkerIds :
          (w \in cluster.exited /\ w \notin cluster'.exited) =>
             /\ Cardinality(cluster'.live \ cluster.live) = 1
             /\ cluster.live \subseteq cluster'.live]_vars
  /\ [](cluster.forked =>
          Cardinality(cluster.live) + Cardinality(cluster.exited) = NumWorkers)
  /\ <>[](Cardinality(cluster.live) = NumWorkers)

\* C19's case: workers have exited and replacements are running
C19_Witness ==
  /\ cluster.crashes >= 2
  /\ Cardinality(cluster.live) = NumWorkers
  /\ cluster.live # 1 .. NumWorkers

\* C21: at most one callback is ever registered on the public channel,
\* whatever the interleaving of admissions.
C21_OnePublicCallback ==
  MapHas(redis.channelCallbacks, PublicChannel) =>
    Len(redis.channelCallbacks[PublicChannel]) <= 1

\* C22: a subscribe call for a channel that another call is still awaiting
\* the upstream acknowledgement of issues no second SUBSCRIBE: it only
\* appends its callback.
C22_OverlapOneSubscribe ==
  \A channel \in Channels :
    (redis.connected /\ redis.subscriber /\ SubscribePending(channel)) =>
      LET r == SubscribeStart(World, channel, PublicCallback)
      IN  /\ ~r.awaiting
          /\ Count(r.W.out.cmds, <<"SUBSCRIBE", channel>>) = 0
          /\ Len(r.W.redis.channelCallbacks[channel]) =
               Len(redis.channelCallbacks[channel]) + 1

\* C23: a user with no connection in the registry has no callback on any of
\* that user's channels.
C23_NoCallbacksWithoutConnection ==
  \A userId \in Users :
    (~MapHas(cm.connections, userId) /\ \A s \in Sockets : AdmissionSettled(s)) =>
      \A i \in 1 .. 2 : ~HasCallbacks(UserChannels(userId)[i])

\* the bus is connected again and nothing is in progress
BusBack ==
  /\ redis.connected /\ redis.subscriber /\ link.sub
  /\ \A x \in Sockets : AdmissionSettled(x)

\* C24: a user admitted while the bus was disconnected and still open once
\* the bus is connected again is sent the messages published on that user's
\* channels and on the public channel.
C24_DeliveryAfterReconnect ==
  \A s \in Sockets :
    (/\ BusBack
     /\ adm[s].pc = "done" /\ ~adm[s].bus /\ adm[s].userId # NoUser
     /\ OpenRegistered(s) /\ ws[s].handlers = "user") =>
      \A channel \in {UserChannels(adm[s].userId)[1], UserChannels(adm[s].userId)[2],
                      PublicChannel} :
        /\ CanDeliver(channel)
        /\ Count(Deliver(channel, TRUE).out.sent[s], "push") >= 1

\* C29: the subscriber connection has at most one 'message' listener, and
\* exactly one as soon as a channel is subscribed or has a callback.
C29_OneMessageListener ==
  /\ redis.listeners <= 1
  /\ (redis.listeners = 1) = redis.messageHandler
  /\ (redis.subscribedChannels # {} \/ DOMAIN redis.channelCallbacks # {})
       => redis.listeners = 1

\* C29's case: the subscriber connection was lost and re-established while
\* channels were subscribed (setupMessageHandler has been called again)
C29_Witness ==
  /\ redis.subscribedChannels # {} /\ redis.connected /\ link.sub
  /\ \E s \in Sockets : adm[s].pc = "done" /\ ~adm[s].bus

\* C30: after broadcastToAll or broadcastToUser returns, no socket that the
\* call found not open is left in the registry, authenticated or guest.
C30_BroadcastEvicts ==
  /\ \A s \in Sockets :
       (InRegistry(cm, s) /\ ws[s].readyState # "OPEN") =>
         ~InRegistry(BroadcastToAll(World).cm, s)
  /\ \A userId \in Users, s \in Sockets :
       (/\ MapHas(cm.connections, userId) /\ s \in cm.connections[userId]
        /\ ws[s].readyState # "OPEN") =>
         ~InRegistry(BroadcastToUser(World, userId).cm, s)

\* the indexes 1 .. n, in order
UpTo(n) == [i \in 1 .. n |-> i]

\* C26: one bus message on a channel with callbacks c1..cn is parsed once and
\* every ci is invoked exactly once, in registration order, whichever of them
\* throw; a message that does not parse invokes none.
C26_EveryCallbackOnceInOrder ==
  \A channel \in Channels :
    HasCallbacks(channel) =>
      LET n == Len(redis.channelCallbacks[channel])
      IN  /\ \A throwing \in SUBSET (1 .. n) :
               LET W == MessageHandlerWith(World, channel, TRUE, throwing)
               IN  W.out.calls = UpTo(n) /\ W.out.parses = 1
          /\ LET W == MessageHandlerWith(World, channel, FALSE, {})
             IN  W.out.calls = << >> /\ W.out.parses = 1

\* C26's case: a channel the broker can deliver on has two callbacks
C26_Witness ==
  \E channel \in Channels :
    CanDeliver(channel) /\ HasCallbacks(channel)
      /\ Len(redis.channelCallbacks[channel]) >= 2

\* the delivery of a message on `channel` removes the interest in it
RemovesInterest(channel) ==
  /\ CanDeliver(channel) /\ HasCallbacks(channel)
  /\ ~MapHas(Deliver(channel, TRUE).redis.channelCallbacks, channel)

\* C27: when a callback invoked during the fan-out of a message on a channel
\* removes the interest in that channel, the callbacks registered at the
\* start of the delivery are still each invoked exactly once, in order.
C27_RemovalDuringFanOut ==
  \A channel \in Channels :
    RemovesInterest(channel) =>
      Deliver(channel, TRUE).out.calls = UpTo(Len(redis.channelCallbacks[channel]))

\* C27's case: the first of two callbacks evicts the user's last sockets and
\* so unsubscribes the channel being delivered
C27_Witness ==
  \E channel \in Channels :
    RemovesInterest(channel) /\ Len(redis.channelCallbacks[channel]) >= 2

\* C25: when the bus client becomes connected again after a lost connection,
\* every channel that has registered callbacks (and no SUBSCRIBE still being
\* awaited) is subscribed at the broker.
C25_ConnectedOnlyWhenResubscribed ==
  [][(started /\ ~redis.connected /\ redis'.connected) =>
       \A channel \in Channels :
         (HasCallbacks(channel) /\ ~SubscribePending(channel))' =>
           (channel \in brokerSubs)']_vars

UserListening(s) == ws[s].readyState = "OPEN" /\ ws[s].handlers = "user"

\* C31: a frame that is not valid JSON, received on an authenticated
\* connection, is answered with exactly one error frame and nothing else,
\* starts no backend call, and leaves the socket open, in the registry, with
\* the registry and the bus client unchanged.
C31_MalformedFrameOneError ==
  \A s \in Sockets, action \in Actions :
    UserListening(s) =>
      LET W == UserFrameRun(s, FALSE, action)
      IN  /\ W.out.sent = [NoSent EXCEPT ![s] = <<"error">>]
          /\ W.out.http = << >> /\ W.out.cmds = << >>
          /\ W.ws = ws /\ W.ws[s].readyState = "OPEN"
          /\ W.cm = cm /\ W.redis = redis
          /\ InRegistry(W.cm, s) /\ MapHas(W.cm.userConnections, s)

\* C31's case: an authenticated connection is open beside a second admitted
\* connection, so the registry has state that could change
C31_Witness ==
  \E s, x \in Sockets :
    /\ s # x /\ UserListening(s) /\ InRegistry(cm, x)
    /\ UserFrameRun(s, FALSE, "start_charging").out.sent[s] = <<"error">>

\* C32: when an exception escapes inside handleConnection, an open socket is
\* closed with code 1011, and once the socket has closed it is not in the
\* registry and not counted as active.
C32_ExceptionCleansRegistry ==
  /\ \A s \in Sockets :
       (CanThrow(s) /\ ws[s].readyState = "OPEN") =>
         LET W == ThrowRun(s)
         IN  W.ws[s].readyState = "CLOSING" /\ W.ws[s].closeCode = 1011
  /\ \A s \in Sockets :
       (adm[s].pc = "failed" /\ ws[s].readyState = "CLOSED") =>
         /\ ~InRegistry(cm, s)
         /\ cm.connectionStats.active <=
              Cardinality({x \in Sockets \ {s} : InRegistry(cm, x)})

\* C33: a socket that has closed, and whose handleConnection call has
\* returned, is not in the registry and not counted as active, at whatever
\* point of its life it closed.
C33_ClosedSocketLeavesRegistry ==
  /\ \A s \in Sockets :
       (ws[s].readyState = "CLOSED" /\ AdmissionSettled(s)) => ~InRegistry(cm, s)
  /\ (\A s \in Sockets : AdmissionSettled(s)) =>
       cm.connectionStats.active <=
         Cardinality({s \in Sockets : ws[s].readyState # "CLOSED" /\ InRegistry(cm, s)})

\* handleConnection(s) has registered the socket and is awaiting the broker:
\* the connection will be admitted
BeingAdmitted(s) ==
  /\ adm[s].pc \in {"subscribe", "numsub"}
  /\ ws[s].readyState = "OPEN" /\ InRegistry(cm, s)

\* C34: a frame received on an open connection that is being admitted, or was
\* admitted as a guest, is answered with a frame on that connection.
C34_EveryFrameAnswered ==
  \A s \in Sockets, json \in BOOLEAN :
    (BeingAdmitted(s) \/ (OpenRegistered(s) /\ ws[s].handlers = "guest")) =>
      Len(FrameRun(s, json).out.sent[s]) = 1

\* C35: once shutdown has been started the process eventually exits,
\* whatever the state of the broker connections.
C35_ShutdownExits == (shutdown # "no") ~> (shutdown = "exited")

\* both broker connections are established
BothEstablished == redis.publisher /\ redis.subscriber /\ link.pub /\ link.sub

\* C37: whenever both broker connections are established (and no shutdown is
\* under way) the client is eventually marked connected, or a connection is
\* lost again.
C37_EstablishedMarkedConnected ==
  (BothEstablished /\ shutdown = "no") ~>
     (redis.connected \/ ~BothEstablished \/ shutdown # "no")

\* the counters of registry c agree with its sets
CountersAgree(c) ==
  /\ c.connectionStats.active =
       Cardinality(c.guestConnections) + Cardinality(DOMAIN c.userConnections)
  /\ c.connectionStats.guests = Cardinality(c.guestConnections)
  /\ DOMAIN c.connectionStats.byUser = DOMAIN c.connections
  /\ \A u \in DOMAIN c.connections :
       /\ c.connections[u] # {}
       /\ c.connectionStats.byUser[u] = Cardinality(c.connections[u])
       /\ \A s \in c.connections[u] :
            MapHas(c.userConnections, s) /\ c.userConnections[s] = u
  /\ \A s \in DOMAIN c.userConnections :
       /\ MapHas(c.connections, c.userConnections[s])
       /\ s \in c.connections[c.userConnections[s]]
       /\ s \notin c.guestConnections

\* C36: in every reachable state the registry's counters agree with its
\* sets and no user maps to an empty set; removeConnection keeps it so, and
\* a second removeConnection of the same socket changes nothing.
C36_CountersAgreeWithSets ==
  /\ CountersAgree(cm)
  /\ \A s \in Sockets :
       LET once == RemoveConnection(World, s)
       IN  /\ CountersAgree(once.cm)
           /\ ~InRegistry(once.cm, s)
           /\ RemoveConnection(once, s).cm = once.cm

\* C36's case: 'error' has removed a socket whose 'close' listener will call
\* removeConnection again, while another socket is registered
C36_Witness ==
  \E s, x \in Sockets :
    /\ s # x /\ InRegistry(cm, x)
    /\ ws[s].readyState = "CLOSING" /\ ws[s].handlers # "none"
    /\ ~InRegistry(cm, s)

\* C38: validateTokenLocal never returns claims for a token whose own exp
\* claim has passed at the time of the call, cached or not.
C38_NoClaimsPastExpiry ==
  \A token \in Tokens :
    now >= TokenExp(token) => ValidateTokenLocal(auth, token, now).ret = NoClaims

\* C39: whenever the registry's publicChannelSubscribed flag is true, the
\* public channel has a registered callback and is subscribed at the broker
\* over a subscriber connection that is up.
C39_PublicFlagMeansSubscribed ==
  cm.publicChannelSubscribed =>
    /\ HasCallbacks(PublicChannel)
    /\ PublicChannel \in redis.subscribedChannels
    /\ PublicChannel \in brokerSubs /\ link.sub

====
